---------------------------- MODULE Spec2Model ----------------------------
(***************************************************************************)
(* A model of pkg/util/tracing/tracer.go: the Tracer's span                *)
(* materialization policy (StartSpan, StartChildSpan), and the text-map    *)
(* propagation codec (Inject, Extract).                                    *)
(*                                                                         *)
(* Representation.                                                         *)
(*  - A Go string is a tuple of one-character strings, so that ToLower,    *)
(*    HasPrefix, TrimPrefix and the hexadecimal conversions are computed   *)
(*    character by character, as the Go library computes them.             *)
(*  - A uint64 is the tuple of its hexadecimal digits (each in 0..15),     *)
(*    most significant first, without leading zeros; zero is <<>>.  The    *)
(*    full 64-bit width (sixteen digits) is kept.                          *)
(*  - A Go map is a function with a finite domain.  The baggage map of a   *)
(*    span lives in a heap (baggages) and the span holds an index into     *)
(*    it, 0 being the nil map, so that copying and sharing differ.  A      *)
(*    span makes at most one map in its life: map i is the one span i made.*)
(*  - Operation names, start times, tags and log events are left out:      *)
(*    nothing in StartSpan, StartChildSpan, Inject or Extract reads them.  *)
(***************************************************************************)
EXTENDS Integers, Sequences, FiniteSets, TLC

VARIABLES
    forceRealSpans,  \* Tracer.forceRealSpans
    shadowTracer,    \* Tracer.shadowTracer: 0 (nil) or a shadowTracer object
    netTraceSetting, \* the value enableNetTrace.Get() returns
    spans,           \* the heap of span objects, by allocation order
    baggages,        \* the heap of baggage maps (span.mu.Baggage points here)
    numGroups,       \* how many spanGroup objects new(spanGroup) has made
    shadows,         \* the heap of shadowTracer objects: their type and closed flag
    draws,           \* how many values rand.Int63() has returned
    last,            \* the call made by the last step and what it returned
    steps,           \* how many operations the behaviour has performed
    carrier,         \* codec: the carrier handed to Inject / Extract
    injected,        \* codec: the last Inject call (context, format) and its error
    extracted,       \* codec: the last Extract call's (context, error)
    procs,           \* threads: the call each thread is in and its locals
    tracers,         \* tracerRegistry.tracers
    regLock,         \* tracerRegistry.Mutex: 0 (free) or the thread holding it
    mu,              \* span.mu of the locked spans: the thread holding each
    swaps,           \* per replaced shadowTracer: the call that swapped it
                     \* out and the calls that closed it
    created,         \* how many Tracers NewTracer has made
    history          \* registry history: the Tracers in the order Add appended
                     \* them, and those Remove has taken out

codecVars == <<carrier, injected, extracted>>
threadVars == <<procs, tracers, regLock, mu, swaps, created, history>>
vars == <<forceRealSpans, shadowTracer, netTraceSetting, spans, baggages,
          numGroups, shadows, draws, last, steps, carrier, injected, extracted,
          procs, tracers, regLock, mu, swaps, created, history>>

-----------------------------------------------------------------------------
(* Bounds of the model. *)

\* How many operations one behaviour performs.
MaxSteps == 3

-----------------------------------------------------------------------------
(* Go strings. *)

Upper == <<"A","B","C","D","E","F","G","H","I","J","K","L","M",
           "N","O","P","Q","R","S","T","U","V","W","X","Y","Z">>
Lower == <<"a","b","c","d","e","f","g","h","i","j","k","l","m",
           "n","o","p","q","r","s","t","u","v","w","x","y","z">>

\* The lowercase form of every uppercase letter, and the reverse.
LowerOf == [c \in {Upper[i] : i \in DOMAIN Upper} |->
                Lower[CHOOSE i \in DOMAIN Upper : Upper[i] = c]]
UpperOf == [c \in {Lower[i] : i \in DOMAIN Lower} |->
                Upper[CHOOSE i \in DOMAIN Lower : Lower[i] = c]]

ToLowerChar(c) == IF c \in DOMAIN LowerOf THEN LowerOf[c] ELSE c

ToUpperChar(c) == IF c \in DOMAIN UpperOf THEN UpperOf[c] ELSE c

\* strings.ToLower
ToLower(s) == [i \in 1..Len(s) |-> ToLowerChar(s[i])]

\* strings.HasPrefix
HasPrefix(s, p) == Len(s) >= Len(p) /\ SubSeq(s, 1, Len(p)) = p

\* strings.TrimPrefix
TrimPrefix(s, p) == IF HasPrefix(s, p) THEN SubSeq(s, Len(p) + 1, Len(s)) ELSE s

\* const Snowball = "sb"
Snowball == <<"s","b">>

prefixTracerState == <<"c","r","d","b","-","t","r","a","c","e","r","-">>
prefixBaggage == <<"c","r","d","b","-","b","a","g","g","a","g","e","-">>
prefixShadow == <<"c","r","d","b","-","s","h","a","d","o","w","-">>
fieldNameTraceID == prefixTracerState \o <<"t","r","a","c","e","i","d">>
fieldNameSpanID == prefixTracerState \o <<"s","p","a","n","i","d">>
fieldNameShadowType ==
    prefixTracerState \o <<"s","h","a","d","o","w","t","y","p","e">>

-----------------------------------------------------------------------------
(* uint64 values and their hexadecimal text. *)

\* The base and the bit size passed to strconv.FormatUint and ParseUint.
HexBase == 16
UintBits == 64

HexDigits == <<"0","1","2","3","4","5","6","7","8","9","a","b","c","d","e","f">>

\* The value of a hexadecimal digit of either case, -1 for any other character.
HexValueOf == [c \in {HexDigits[i] : i \in DOMAIN HexDigits} |->
                  (CHOOSE i \in DOMAIN HexDigits : HexDigits[i] = c) - 1]
HexValue(c) ==
    IF ToLowerChar(c) \in DOMAIN HexValueOf THEN HexValueOf[ToLowerChar(c)] ELSE -1

\* strconv.FormatUint(x, 16): lowercase digits, "0" for zero.
FormatUint(x) ==
    IF x = <<>> THEN <<"0">> ELSE [i \in 1..Len(x) |-> HexDigits[x[i] + 1]]

\* A digit sequence without its leading zeros.
StripZeros(d) ==
    IF \E i \in 1..Len(d) : d[i] # 0
    THEN SubSeq(d, CHOOSE i \in 1..Len(d) : d[i] # 0 /\ \A j \in 1..(i - 1) : d[j] = 0,
                Len(d))
    ELSE <<>>

\* ParseUint reading base-10 digits only.
ParseUintBase10(v) ==
    IF Len(v) = 0 \/ \E i \in 1..Len(v) : HexValue(v[i]) \notin 0..9
    THEN [ok |-> FALSE, val |-> <<>>]
    ELSE [ok |-> TRUE, val |-> StripZeros([i \in 1..Len(v) |-> HexValue(v[i])])]

\* strconv.ParseUint(v, 16, 64): fails on the empty string, on a character
\* that is no hexadecimal digit, and on a value that needs more than 64 bits.
ParseUint(v) ==
    IF Len(v) = 0 \/ \E i \in 1..Len(v) : HexValue(v[i]) = -1
    THEN [ok |-> FALSE, val |-> <<>>]
    ELSE LET d == StripZeros([i \in 1..Len(v) |-> HexValue(v[i])]) IN
         IF Len(d) * 4 > UintBits
         THEN [ok |-> FALSE, val |-> <<>>]
         ELSE [ok |-> TRUE, val |-> d]

-----------------------------------------------------------------------------
(* Go maps. *)

EmptyMap == <<>>

MapSet(m, k, v) == [x \in (DOMAIN m) \cup {k} |-> IF x = k THEN v ELSE m[x]]

\* m[k] of a map[string]string: the zero value "" when k is absent.
MapGet(m, k) == IF k \in DOMAIN m THEN m[k] ELSE <<>>

-----------------------------------------------------------------------------
(* The values the model draws from. *)

\* A nil pointer, a nil interface value, a nil map.
Nil == 0

\* opentracing.ChildOfRef and opentracing.FollowsFromRef.
ChildOfRef == 0
FollowsFromRef == 1
\* The reference types a caller passes: the two above and one that is neither.
RefTypes == {ChildOfRef, FollowsFromRef, FollowsFromRef + 1}

\* RecordingType: the zero value, the snowball kind and the explicit kind.
NoRecording == 0
SnowballRecording == 1
ExplicitRecording == 2

\* The values rand.Int63() returns in the model: 1 and 2^63 - 1.
RandVals == {<<1>>, <<7,15,15,15,15,15,15,15,15,15,15,15,15,15,15,15>>}

\* The baggage a caller sets.
BagKeys == {Snowball}
BagVals == {<<>>, <<"1">>}

\* The shadow tracer types (the manager's name).
ShadowTypes == {<<"l","s">>, <<"z","k">>}

-----------------------------------------------------------------------------
(* Span contexts. *)

\* noopSpanContext{}
NoopCtx ==
    [kind |-> "noop", TraceID |-> <<>>, SpanID |-> <<>>, Baggage |-> EmptyMap,
     shadowTr |-> Nil, shadowCtx |-> Nil,
     recordingGroup |-> Nil, recordingType |-> NoRecording, src |-> 0]

\* A SpanReference whose ReferencedContext is nil.
NilCtx == [NoopCtx EXCEPT !.kind = "nil"]

\* A *spanContext received from another process (the result of an Extract):
\* it belongs to no local span (src = 0) and to no recording group.
RemoteCtx ==
    [kind |-> "span", TraceID |-> <<10,5>>, SpanID |-> <<2>>,
     Baggage |-> [k \in {Snowball} |-> <<"1">>],
     shadowTr |-> Nil, shadowCtx |-> Nil,
     recordingGroup |-> Nil, recordingType |-> NoRecording, src |-> 0]

\* The map s.mu.Baggage points to (a nil map reads as an empty one).
BaggageOf(s) == IF s.Baggage = Nil THEN EmptyMap ELSE baggages[s.Baggage]

\* span.isRecording
isRecording(s) == s.recordingGroup # Nil

\* span.Context: a snapshot of the span's identity, a copy of its baggage,
\* its shadow tracer and mirrored context, and its recording membership.
Context(i) ==
    LET s == spans[i] IN
    [kind |-> "span", TraceID |-> s.TraceID, SpanID |-> s.SpanID,
     Baggage |-> BaggageOf(s),
     shadowTr |-> s.shadowTr,
     shadowCtx |-> IF s.shadowTr # Nil THEN i ELSE Nil,
     recordingGroup |-> IF isRecording(s) THEN s.recordingGroup ELSE Nil,
     recordingType |-> IF isRecording(s) THEN s.recordingType ELSE NoRecording,
     src |-> i]

-----------------------------------------------------------------------------
(* StartSpan options. *)

\* tracing.Recordable
RecordableOpt == [kind |-> "recordable", refType |-> ChildOfRef, ctx |-> NoopCtx]
\* An option that is neither a reference nor Recordable (opentracing.StartTime).
StartTimeOpt == [kind |-> "startTime", refType |-> ChildOfRef, ctx |-> NoopCtx]
\* opentracing.SpanReference{Type: t, ReferencedContext: c}
RefOpt(t, c) == [kind |-> "ref", refType |-> t, ctx |-> c]

\* The contexts a caller can reference in the current state.
CtxChoices == {NoopCtx, NilCtx, RemoteCtx} \cup {Context(i) : i \in 1..Len(spans)}

OptChoices ==
    {RecordableOpt, StartTimeOpt} \cup {RefOpt(t, c) : t \in RefTypes, c \in CtxChoices}

\* The option lists a caller passes: none, one option, or two, the second
\* being Recordable or a ChildOf reference.
OptLists ==
    {<<>>} \cup {<<o>> : o \in OptChoices}
           \cup {<<o1, o2>> : o1 \in OptChoices,
                              o2 \in {RecordableOpt} \cup
                                     {RefOpt(ChildOfRef, c) : c \in CtxChoices}}

-----------------------------------------------------------------------------
(* Span objects. *)

\* A span without a mirrored shadow span.
NoShadowSpan == [open |-> FALSE, parentCtx |-> Nil, refType |-> ChildOfRef]

\* &span{}: every field at its zero value.  hasParent, parent, via and sep,
\* traceDraw and spanDraw are history: the span this one was created from
\* (0: a remote context), the operation that created it and its
\* separateRecording argument, and which draws of the random source gave
\* its ids (0: not drawn).
ZeroSpan ==
    [TraceID |-> <<>>, SpanID |-> <<>>, parentSpanID |-> <<>>,
     Baggage |-> Nil,
     shadowTr |-> Nil, shadowSpan |-> NoShadowSpan, netTr |-> FALSE,
     recordingGroup |-> Nil, recordingType |-> NoRecording,
     duration |-> 0,
     hasParent |-> FALSE, parent |-> 0, via |-> "", sep |-> FALSE,
     traceDraw |-> 0, spanDraw |-> 0]

\* linkShadowSpan: opens a mirrored span in shadowTr, linked to
\* parentShadowCtx (if any) with the given reference type, and stores the
\* tracer and the mirrored span on s.
linkShadowSpan(s, shadowTr, parentShadowCtx, parentType) ==
    [s EXCEPT !.shadowTr = shadowTr,
              !.shadowSpan = [open |-> TRUE, parentCtx |-> parentShadowCtx,
                              refType |-> parentType]]

\* span.enableRecording
enableRecording(s, group, recType) ==
    [s EXCEPT !.recordingGroup = group, !.recordingType = recType]

\* span.disableRecording
disableRecording(s) ==
    [s EXCEPT !.recordingGroup = Nil, !.recordingType = NoRecording]

\* One more operation of the bounded behaviour.
Tick == steps < MaxSteps /\ steps' = steps + 1

-----------------------------------------------------------------------------
(* Tracer.StartSpan. *)

\* The first fast path: a single option that is a SpanReference to a noop
\* context.
NoopRefFastPath(opts) ==
    Len(opts) = 1 /\ opts[1].kind = "ref" /\ opts[1].ctx.kind = "noop"

\* The second fast path: no options and nothing that needs a real span.
NoOptsFastPath(opts, netTrace, shadowTr) ==
    Len(opts) = 0 /\ ~netTrace /\ shadowTr = Nil /\ ~forceRealSpans

\* sso.References after every option was applied.
SsoReferences(opts) == SelectSeq(opts, LAMBDA o : o.kind = "ref")

\* Whether the Recordable option is among the options.
IsRecordable(opts) == \E i \in 1..Len(opts) : opts[i].kind = "recordable"

\* A reference the loop over sso.References does not skip.
ValidReference(r) ==
    /\ r.refType \in {ChildOfRef, FollowsFromRef}
    /\ r.ctx.kind # "nil"
    /\ r.ctx.kind # "noop"

\* The index of the reference the loop stops at (0: none, hasParent is false).
ResolvedParent(refs) ==
    IF \E i \in 1..Len(refs) : ValidReference(refs[i])
    THEN CHOOSE i \in 1..Len(refs) :
            /\ ValidReference(refs[i])
            /\ \A j \in 1..(i - 1) : ~ValidReference(refs[j])
    ELSE 0

\* recordingGroup and recordingType as the loop leaves them; fresh says that
\* the group is a new(spanGroup).
ParentRecording(hasParent, parentCtx) ==
    IF hasParent /\ parentCtx.recordingGroup # Nil
    THEN [group |-> parentCtx.recordingGroup, type |-> parentCtx.recordingType,
          fresh |-> FALSE]
    ELSE IF hasParent /\ MapGet(parentCtx.Baggage, Snowball) # <<>>
    THEN [group |-> numGroups + 1, type |-> SnowballRecording, fresh |-> TRUE]
    ELSE [group |-> Nil, type |-> NoRecording, fresh |-> FALSE]

\* The shadow tracer read from the Tracer, whatever the parent holds.
SpanShadowTracerCurrent(hasParent, parentCtx, shadowTr) == shadowTr

\* The shadow tracer the span uses: the parent's, if there is a parent.
SpanShadowTracer(hasParent, parentCtx, shadowTr) ==
    IF hasParent THEN parentCtx.shadowTr ELSE shadowTr

\* A link that leaves the parent's shadow context out.
ParentShadowCtxDropped(hasParent, parentCtx) == Nil

\* parentShadowCtx: the parent's shadow context, nil without a parent.
ParentShadowCtx(hasParent, parentCtx) ==
    IF hasParent THEN parentCtx.shadowCtx ELSE Nil

\* NoopDecision with the test of the Recordable option inverted.
NoopDecisionRecordableInverted(recordable, recordingGroup, shadowTr, netTrace) ==
    /\ recordable
    /\ recordingGroup = Nil
    /\ shadowTr = Nil
    /\ ~netTrace
    /\ ~forceRealSpans

\* The last noop return: nothing needs a real span.
NoopDecision(recordable, recordingGroup, shadowTr, netTrace) ==
    /\ ~recordable
    /\ recordingGroup = Nil
    /\ shadowTr = Nil
    /\ ~netTrace
    /\ ~forceRealSpans

\* The context the loop resolved as the parent (NoopCtx: none).
ResolvedParentCtx(opts) ==
    LET refs == SsoReferences(opts)
        pi == ResolvedParent(refs)
    IN IF pi # 0 THEN refs[pi].ctx ELSE NoopCtx

\* Whether StartSpan returns &t.noopSpan, given the setting and the shadow
\* tracer it read at lines 172-173.
StartSpanIsNoopWith(opts, netTrace, shadowTr0) ==
    LET parentCtx == ResolvedParentCtx(opts)
        hasParent == parentCtx.kind = "span"
    IN  \/ NoopRefFastPath(opts)
        \/ NoOptsFastPath(opts, netTrace, shadowTr0)
        \/ NoopDecision(IsRecordable(opts),
                        ParentRecording(hasParent, parentCtx).group,
                        SpanShadowTracer(hasParent, parentCtx, shadowTr0),
                        netTrace)

\* Whether StartSpan returns &t.noopSpan when it runs in one step.
StartSpanIsNoop(opts) == StartSpanIsNoopWith(opts, netTraceSetting, shadowTracer)

\* The index the next span object gets, which is also the index of the map
\* it makes with make(map[string]string, l).
NewSpanIndex == Len(spans) + 1

\* The span StartSpan builds, field by field in the order of the code, given
\* the setting and the shadow tracer it read at lines 172-173.
StartSpanNewSpanWith(opts, netTrace, shadowTr0, rt, rs) ==
    LET refs == SsoReferences(opts)
        pi == ResolvedParent(refs)
        hasParent == pi # 0
        parentType == IF hasParent THEN refs[pi].refType ELSE ChildOfRef
        parentCtx == ResolvedParentCtx(opts)
        rec == ParentRecording(hasParent, parentCtx)
        shadowTr == SpanShadowTracer(hasParent, parentCtx, shadowTr0)
        s0 == [ZeroSpan EXCEPT !.duration = -1, !.via = "StartSpan",
                               !.hasParent = hasParent,
                               !.parent = IF hasParent THEN parentCtx.src ELSE 0]
        s1 == IF ~hasParent
              THEN [s0 EXCEPT !.TraceID = rt, !.traceDraw = draws + 1,
                              !.SpanID = rs, !.spanDraw = draws + 2]
              ELSE [s0 EXCEPT !.TraceID = parentCtx.TraceID,
                              !.SpanID = rs, !.spanDraw = draws + 1]
        s2 == IF shadowTr # Nil
              THEN linkShadowSpan(s1, shadowTr,
                                  ParentShadowCtx(hasParent, parentCtx),
                                  parentType)
              ELSE s1
        s3 == IF rec.group # Nil THEN enableRecording(s2, rec.group, rec.type) ELSE s2
        s4 == [s3 EXCEPT !.netTr = netTrace]
        s5 == IF hasParent
              THEN [s4 EXCEPT !.parentSpanID = parentCtx.SpanID,
                              !.Baggage = IF Cardinality(DOMAIN parentCtx.Baggage) > 0
                                          THEN NewSpanIndex ELSE Nil]
              ELSE s4
    IN s5

\* What a call returns: the Tracer's noop span, or a new span object (span);
\* bag is what the map the new span made holds, freshGroup whether the call
\* made a new(spanGroup).
NoopResult == [noop |-> TRUE, span |-> ZeroSpan, bag |-> EmptyMap, freshGroup |-> FALSE]

StartSpanResultWith(opts, netTrace, shadowTr0, rt, rs) ==
    IF StartSpanIsNoopWith(opts, netTrace, shadowTr0)
    THEN NoopResult
    ELSE LET parentCtx == ResolvedParentCtx(opts) IN
         [noop |-> FALSE,
          span |-> StartSpanNewSpanWith(opts, netTrace, shadowTr0, rt, rs),
          bag |-> parentCtx.Baggage,
          freshGroup |-> ParentRecording(parentCtx.kind = "span", parentCtx).fresh]

\* StartSpan run in one step: the reads of lines 172-173 see the current state.
StartSpanNewSpan(opts, rt, rs) ==
    StartSpanNewSpanWith(opts, netTraceSetting, shadowTracer, rt, rs)

StartSpanResult(opts, rt, rs) ==
    StartSpanResultWith(opts, netTraceSetting, shadowTracer, rt, rs)

\* The record of a step that made no span-creating call.
NoCall ==
    [op |-> "", noop |-> FALSE, span |-> 0, hasParent |-> FALSE, parent |-> 0,
     recordable |-> FALSE, realRef |-> FALSE, soleNoopRef |-> FALSE,
     refType |-> ChildOfRef]

\* The record of a StartSpan call: what it returned, the parent it resolved
\* (parent 0: a remote context) and the type of the reference to it, and
\* whether the options held Recordable,
\* held a reference to a real context, were a sole ChildOf/FollowsFrom
\* reference to a noop context.
StartSpanCall(opts, r) ==
    [NoCall EXCEPT
        !.op = "StartSpan",
        !.noop = r.noop,
        !.span = IF r.noop THEN 0 ELSE NewSpanIndex,
        !.hasParent = ResolvedParentCtx(opts).kind = "span",
        !.parent = ResolvedParentCtx(opts).src,
        !.recordable = IsRecordable(opts),
        !.refType = IF ResolvedParent(SsoReferences(opts)) # 0
                    THEN SsoReferences(opts)[ResolvedParent(SsoReferences(opts))].refType
                    ELSE ChildOfRef,
        !.realRef = \E i \in 1..Len(opts) :
                        opts[i].kind = "ref" /\ opts[i].ctx.kind = "span",
        !.soleNoopRef = /\ Len(opts) = 1
                        /\ opts[1].kind = "ref"
                        /\ opts[1].refType \in {ChildOfRef, FollowsFromRef}
                        /\ opts[1].ctx.kind = "noop"]

\* The state change of a call that returns r.
Returns(r) ==
    IF r.noop
    THEN UNCHANGED <<spans, baggages, numGroups, draws>>
    ELSE /\ spans' = Append(spans, r.span)
         /\ baggages' = Append(baggages, IF r.span.Baggage = NewSpanIndex
                                         THEN r.bag ELSE EmptyMap)
         /\ numGroups' = IF r.freshGroup THEN numGroups + 1 ELSE numGroups
         /\ draws' = IF r.span.traceDraw # 0 THEN draws + 2 ELSE draws + 1

StartSpan(opts) ==
    /\ Tick
    /\ \E rt \in IF StartSpanIsNoop(opts) THEN {<<>>} ELSE RandVals,
          rs \in IF StartSpanIsNoop(opts) THEN {<<>>} ELSE RandVals :
            LET r == StartSpanResult(opts, rt, rs) IN
            /\ Returns(r)
            /\ last' = StartSpanCall(opts, r)
    /\ UNCHANGED <<forceRealSpans, shadowTracer, netTraceSetting, shadows, codecVars,
                   threadVars>>

-----------------------------------------------------------------------------
(* StartChildSpan. *)

\* IsBlackHoleSpan: true exactly for the shared noop span (handle 0).
IsBlackHoleSpan(p) == p = 0

\* ChildBaggage with the parent's map assigned instead of copied.
ChildBaggageShared(pSpan) == pSpan.Baggage

\* s.mu.Baggage of the child: a new map when the parent's has entries.
ChildBaggage(pSpan) ==
    IF Cardinality(DOMAIN BaggageOf(pSpan)) > 0 THEN NewSpanIndex ELSE Nil

\* ChildTraceID with the id drawn instead of inherited.
ChildTraceIDDrawn(pSpan, rs) == rs

\* s.TraceID of the child: the parent's.
ChildTraceID(pSpan, rs) == pSpan.TraceID

\* ChildRecording with separateRecording ignored.
ChildRecordingNeverSeparate(pSpan, separateRecording) ==
    IF isRecording(pSpan)
    THEN [group |-> pSpan.recordingGroup, type |-> pSpan.recordingType, fresh |-> FALSE]
    ELSE [group |-> Nil, type |-> NoRecording, fresh |-> FALSE]

\* The recording the child is given: the parent's group, or a new one.
ChildRecording(pSpan, separateRecording) ==
    IF isRecording(pSpan)
    THEN [group |-> IF separateRecording THEN numGroups + 1 ELSE pSpan.recordingGroup,
          type |-> pSpan.recordingType,
          fresh |-> separateRecording]
    ELSE [group |-> Nil, type |-> NoRecording, fresh |-> FALSE]

\* The span StartChildSpan builds from parent span p.
StartChildSpanNewSpan(p, separateRecording, rs) ==
    LET pSpan == spans[p]
        rec == ChildRecording(pSpan, separateRecording)
        s0 == [ZeroSpan EXCEPT !.parentSpanID = pSpan.SpanID,
                               !.via = "StartChildSpan", !.sep = separateRecording,
                               !.hasParent = TRUE, !.parent = p]
        s1 == [s0 EXCEPT !.Baggage = ChildBaggage(pSpan)]
        s2 == [s1 EXCEPT !.TraceID = ChildTraceID(pSpan, rs),
                         !.SpanID = rs, !.spanDraw = draws + 1]
        s3 == IF pSpan.shadowTr # Nil
              THEN linkShadowSpan(s2, pSpan.shadowTr, p, ChildOfRef)
              ELSE s2
        s4 == IF rec.group # Nil THEN enableRecording(s3, rec.group, rec.type) ELSE s3
    IN s4

StartChildSpanResult(p, separateRecording, rs) ==
    IF IsBlackHoleSpan(p)
    THEN NoopResult
    ELSE [noop |-> FALSE,
          span |-> StartChildSpanNewSpan(p, separateRecording, rs),
          bag |-> BaggageOf(spans[p]),
          freshGroup |-> ChildRecording(spans[p], separateRecording).fresh]

StartChildSpan(p, separateRecording) ==
    /\ Tick
    /\ \E rs \in IF IsBlackHoleSpan(p) THEN {<<>>} ELSE RandVals :
            LET r == StartChildSpanResult(p, separateRecording, rs) IN
            /\ Returns(r)
            /\ last' = [NoCall EXCEPT
                            !.op = "StartChildSpan",
                            !.noop = r.noop,
                            !.span = IF r.noop THEN 0 ELSE NewSpanIndex,
                            !.hasParent = ~IsBlackHoleSpan(p),
                            !.parent = p]
    /\ UNCHANGED <<forceRealSpans, shadowTracer, netTraceSetting, shadows, codecVars,
                   threadVars>>

-----------------------------------------------------------------------------
(* The other operations on the Tracer and on spans. *)

\* Tracer.SetForceRealSpans
SetForceRealSpans(v) ==
    /\ Tick
    /\ forceRealSpans' = v
    /\ last' = NoCall
    /\ UNCHANGED <<shadowTracer, netTraceSetting, spans, baggages, numGroups,
                   shadows, draws, codecVars,
                   threadVars>>

\* The trace.debug.enable setting changes.
SetNetTrace(v) ==
    /\ Tick
    /\ netTraceSetting' = v
    /\ last' = NoCall
    /\ UNCHANGED <<forceRealSpans, shadowTracer, spans, baggages, numGroups,
                   shadows, draws, codecVars,
                   threadVars>>

\* Tracer.setShadowTracer(manager, tr): hasManager says manager != nil and
\* typ is the manager's name.  The old shadow tracer, if any, is closed.
setShadowTracer(hasManager, typ) ==
    /\ Tick
    /\ LET new == IF hasManager
                  THEN Append(shadows, [typ |-> typ, closed |-> FALSE])
                  ELSE shadows
           old == shadowTracer
       IN /\ shadowTracer' = IF hasManager THEN Len(new) ELSE Nil
          /\ shadows' = IF old # Nil THEN [new EXCEPT ![old].closed = TRUE] ELSE new
    /\ last' = NoCall
    /\ UNCHANGED <<forceRealSpans, netTraceSetting, spans, baggages, numGroups,
                   draws, codecVars,
                   threadVars>>

\* span.SetBaggageItem: the span makes its map if it has none.
SetBaggageItem(i, k, v) ==
    /\ Tick
    /\ IF spans[i].Baggage = Nil
       THEN /\ baggages' = [baggages EXCEPT ![i] = MapSet(EmptyMap, k, v)]
            /\ spans' = [spans EXCEPT ![i].Baggage = i]
       ELSE /\ baggages' = [baggages EXCEPT ![spans[i].Baggage] = MapSet(@, k, v)]
            /\ UNCHANGED spans
    /\ last' = NoCall
    /\ UNCHANGED <<forceRealSpans, shadowTracer, netTraceSetting, numGroups,
                   shadows, draws, codecVars,
                   threadVars>>

\* StartRecording(span, recType): nothing to do if the span is recording.
StartRecording(i, recType) ==
    /\ Tick
    /\ IF ~isRecording(spans[i])
       THEN /\ numGroups' = numGroups + 1
            /\ spans' = [spans EXCEPT ![i] = enableRecording(@, numGroups + 1, recType)]
       ELSE UNCHANGED <<spans, numGroups>>
    /\ last' = NoCall
    /\ UNCHANGED <<forceRealSpans, shadowTracer, netTraceSetting, baggages,
                   shadows, draws, codecVars,
                   threadVars>>

\* StopRecording(span): detaches the span from its group.
StopRecording(i) ==
    /\ Tick
    /\ spans' = [spans EXCEPT ![i] = disableRecording(@)]
    /\ last' = NoCall
    /\ UNCHANGED <<forceRealSpans, shadowTracer, netTraceSetting, baggages,
                   numGroups, shadows, draws, codecVars,
                   threadVars>>

-----------------------------------------------------------------------------
(* Tracer.Inject and Tracer.Extract. *)

\* The errors of the opentracing package; ErrShadow is an error returned by
\* the shadow tracer's own Inject or Extract.
ErrNil == ""
ErrUnsupportedFormat == "ErrUnsupportedFormat"
ErrInvalidCarrier == "ErrInvalidCarrier"
ErrInvalidSpanContext == "ErrInvalidSpanContext"
ErrSpanContextCorrupted == "ErrSpanContextCorrupted"
ErrShadow == "ErrShadow"

\* The formats a caller passes: the two the Tracer supports and one other.
Formats == {"HTTPHeaders", "TextMap", "Binary"}
SupportedFormat(format) == format \in {"HTTPHeaders", "TextMap"}

\* carrier.(opentracing.TextMapWriter) and carrier.(opentracing.TextMapReader):
\* a TextMapCarrier is both, textMapWriterFn and textMapReaderFn are one each.
IsTextMapWriter(c) == c.kind \in {"TextMapCarrier", "textMapWriterFn"}
IsTextMapReader(c) == c.kind \in {"TextMapCarrier", "textMapReaderFn"}

\* A carrier: its dynamic type and the key/value pairs it holds.
CarrierOf(kind, m) == [kind |-> kind, m |-> m]
NoCarrier == CarrierOf("other", EmptyMap)
EmptyCarrier == CarrierOf("TextMapCarrier", EmptyMap)

\* A SpanContext of another implementation than noopSpanContext, *spanContext.
ForeignCtx == [NoopCtx EXCEPT !.kind = "foreign"]

\* The pairs the shadow tracer's Inject writes for its context.
ShadowPayload == [k \in {<<"i","d">>} |-> <<"7">>]

\* mapWriter.Set(prefix+k, m[k]) for every entry of m.
SetAll(dst, prefix, m) ==
    [x \in (DOMAIN dst) \cup {prefix \o k : k \in DOMAIN m} |->
        IF \E k \in DOMAIN m : prefix \o k = x
        THEN m[CHOOSE k \in DOMAIN m : prefix \o k = x]
        ELSE dst[x]]

\* What the shadow tracer's Inject does: it writes its pairs and succeeds,
\* fails having written nothing, or fails having written.
ShadowInjectOutcomes == {"ok", "err", "errAfterWrite"}

\* The three checks with the carrier checked before the format.
InjectCheckCarrierFirst(osc, format, c) ==
    IF ~IsTextMapWriter(c) THEN ErrInvalidCarrier
    ELSE IF ~SupportedFormat(format) THEN ErrUnsupportedFormat
    ELSE IF osc.kind # "span" THEN ErrInvalidSpanContext
    ELSE ErrNil

\* The checks Inject makes on a context that is not the noop context, before
\* it writes: the format, the carrier, the type of the context.
InjectCheck(osc, format, c) ==
    IF ~SupportedFormat(format) THEN ErrUnsupportedFormat
    ELSE IF ~IsTextMapWriter(c) THEN ErrInvalidCarrier
    ELSE IF osc.kind # "span" THEN ErrInvalidSpanContext
    ELSE ErrNil

\* Tracer.Inject: the pairs of the carrier after the call, and the error.
InjectResult(osc, format, c, shadowOutcome) ==
    IF osc.kind = "noop" THEN [m |-> c.m, err |-> ErrNil]
    ELSE IF InjectCheck(osc, format, c) # ErrNil
    THEN [m |-> c.m, err |-> InjectCheck(osc, format, c)]
    ELSE LET ids == MapSet(MapSet(c.m, fieldNameTraceID, FormatUint(osc.TraceID)),
                           fieldNameSpanID, FormatUint(osc.SpanID))
             bag == SetAll(ids, prefixBaggage, osc.Baggage)
             typ == MapSet(bag, fieldNameShadowType, shadows[osc.shadowTr].typ)
         IN IF osc.shadowTr = Nil THEN [m |-> bag, err |-> ErrNil]
            ELSE [m |-> IF shadowOutcome = "err" THEN typ
                        ELSE SetAll(typ, prefixShadow, ShadowPayload),
                  err |-> IF shadowOutcome = "ok" THEN ErrNil ELSE ErrShadow]

\* The record of an Inject call and of an Extract call.
NoInject ==
    [done |-> FALSE, ctx |-> NoopCtx, format |-> "", err |-> ErrNil,
     before |-> NoCarrier]
NoExtract == [done |-> FALSE, format |-> "", ctx |-> NoopCtx, err |-> ErrNil]

\* One carrier is written by one Inject call.
Inject(osc, format, shadowOutcome) ==
    /\ ~injected.done
    /\ LET r == InjectResult(osc, format, carrier, shadowOutcome) IN
       /\ carrier' = [carrier EXCEPT !.m = r.m]
       /\ injected' = [done |-> TRUE, ctx |-> osc, format |-> format,
                       err |-> r.err, before |-> carrier]
    /\ extracted' = NoExtract
    /\ UNCHANGED <<forceRealSpans, shadowTracer, netTraceSetting, spans,
                   baggages, numGroups, shadows, draws, last, steps,
                   threadVars>>

\* The variables of Extract before the first pair is read: var sc
\* spanContext, var shadowType string, var shadowCarrier TextMapCarrier.
ExtractStart ==
    [sc |-> [NoopCtx EXCEPT !.kind = "span"], shadowType |-> <<>>,
     shadowCarrier |-> EmptyMap, err |-> ErrNil]

\* The function Extract hands to ForeachKey, applied to one pair.
ExtractHandler(st, key, v) ==
    LET k == ToLower(key) IN
    IF k = fieldNameTraceID
    THEN IF ParseUint(v).ok
         THEN [st EXCEPT !.sc.TraceID = ParseUint(v).val]
         ELSE [st EXCEPT !.err = ErrSpanContextCorrupted]
    ELSE IF k = fieldNameSpanID
    THEN IF ParseUint(v).ok
         THEN [st EXCEPT !.sc.SpanID = ParseUint(v).val]
         ELSE [st EXCEPT !.err = ErrSpanContextCorrupted]
    ELSE IF k = fieldNameShadowType
    THEN [st EXCEPT !.shadowType = v]
    ELSE IF HasPrefix(k, prefixBaggage)
    THEN [st EXCEPT !.sc.Baggage = MapSet(@, TrimPrefix(k, prefixBaggage), v)]
    ELSE IF HasPrefix(k, prefixShadow)
    THEN [st EXCEPT !.shadowCarrier = MapSet(@, TrimPrefix(k, prefixShadow), v)]
    ELSE st

\* ForeachKey: the handler is called on the pairs in the order given and the
\* first error ends the iteration.
RECURSIVE ForeachKey(_, _, _)
ForeachKey(m, order, st) ==
    IF order = <<>> THEN st
    ELSE LET st2 == ExtractHandler(st, Head(order), m[Head(order)]) IN
         IF st2.err # ErrNil THEN st2 ELSE ForeachKey(m, Tail(order), st2)

\* The orders in which a Go map is iterated: the runtime picks any; the model
\* takes one enumeration of the keys and its reverse, so that any two keys
\* are visited in both relative orders.
RECURSIVE SomeOrder(_)
SomeOrder(S) ==
    IF S = {} THEN <<>>
    ELSE LET x == CHOOSE y \in S : TRUE IN <<x>> \o SomeOrder(S \ {x})

Reverse(o) == [i \in 1..Len(o) |-> o[Len(o) + 1 - i]]

Orders(S) == {SomeOrder(S), Reverse(SomeOrder(S))}

\* An error return that hands back the context under construction.
ExtractFailurePartial(sc, err) == [ctx |-> sc, err |-> err]

\* An error return of Extract: return noopSpanContext{}, err.
ExtractFailure(sc, err) == [ctx |-> NoopCtx, err |-> err]

\* A test for an absent trace that looks at the TraceID alone.
NoTraceFoundSpanIDSet(sc) == sc.TraceID = <<>> /\ sc.SpanID # <<>>

\* sc.TraceID == 0 && sc.SpanID == 0
NoTraceFound(sc) == sc.TraceID = <<>> /\ sc.SpanID = <<>>

\* A test that takes any configured shadow tracer, whatever its type.
ShadowTypeIgnored(shadowType, shadowTr) == shadowTr # Nil

\* shadowTr != nil && strings.ToLower(shadowType) ==
\* strings.ToLower(shadowTr.Typ())
ShadowTypeMatches(shadowType, shadowTr) ==
    shadowTr # Nil /\ ToLower(shadowType) = ToLower(shadows[shadowTr].typ)

\* Tracer.Extract, for one iteration order of the carrier and one outcome of
\* the shadow tracer's Extract.
ExtractResult(format, c, order, shadowOk) ==
    IF ~SupportedFormat(format)
    THEN ExtractFailure(ExtractStart.sc, ErrUnsupportedFormat)
    ELSE IF ~IsTextMapReader(c)
    THEN ExtractFailure(ExtractStart.sc, ErrInvalidCarrier)
    ELSE LET st == ForeachKey(c.m, order, ExtractStart) IN
         IF st.err # ErrNil THEN ExtractFailure(st.sc, st.err)
         ELSE IF NoTraceFound(st.sc) THEN [ctx |-> NoopCtx, err |-> ErrNil]
         ELSE IF /\ st.shadowType # <<>>
                 /\ ShadowTypeMatches(st.shadowType, shadowTracer)
         THEN IF shadowOk
              THEN [ctx |-> [st.sc EXCEPT !.shadowTr = shadowTracer, !.shadowCtx = 1],
                    err |-> ErrNil]
              ELSE ExtractFailure([st.sc EXCEPT !.shadowTr = shadowTracer], ErrShadow)
         ELSE [ctx |-> st.sc, err |-> ErrNil]

\* The outcomes of Extract over the iteration orders and over the outcomes of
\* the shadow tracer's Extract.
ExtractResults(format, c) ==
    IF SupportedFormat(format) /\ IsTextMapReader(c)
    THEN {ExtractResult(format, c, order, shadowOk) :
            order \in Orders(DOMAIN c.m), shadowOk \in BOOLEAN}
    ELSE {ExtractResult(format, c, <<>>, TRUE)}

Extract(format) ==
    /\ \E r \in ExtractResults(format, carrier) :
         extracted' = [done |-> TRUE, format |-> format, ctx |-> r.ctx,
                       err |-> r.err]
    /\ UNCHANGED <<forceRealSpans, shadowTracer, netTraceSetting, spans,
                   baggages, numGroups, shadows, draws, last, steps, carrier,
                   injected, threadVars>>

-----------------------------------------------------------------------------
(* Threads: the same operations run step by step by concurrent callers. *)

\* The threads of the program.
Threads == {1, 2}

\* A thread that is in no call.  op is the call, pc the place in it, call
\* the number of the call; arg is the Tracer or the parent span it is about;
\* the other fields are locals of the call.
IdleProc ==
    [op |-> "", pc |-> "idle", call |-> 0, arg |-> 0, old |-> Nil,
     opts |-> <<>>, sep |-> FALSE, netTrace |-> FALSE, shadowTr |-> Nil,
     child |-> 0, seen |-> <<>>]

\* No thread is in a call; the registry holds the Tracer that NewTracer made.
ThreadsIdle ==
    /\ procs = [t \in Threads |-> IdleProc]
    /\ tracers = <<Len(<<Nil>>)>>
    /\ regLock = Nil
    /\ mu = EmptyMap
    /\ swaps = EmptyMap
    /\ created = Len(<<Nil>>)
    /\ history = [added |-> <<Len(<<Nil>>)>>, removed |-> {}]

\* The operations that call tracerRegistry.Lock, every operation.
AcquiresRegistryLockAlways(op) == TRUE

\* The operations that call tracerRegistry.Lock: Add (from NewTracer),
\* Remove (from Tracer.Close) and ForEach.
AcquiresRegistryLock(op) == op \in {"NewTracer", "Close", "ForEach"}

\* A thread can enter a call: it is in none, and the registry lock is free
\* if the call starts by taking it.
CanBegin(t, op) ==
    /\ procs[t].pc = "idle"
    /\ AcquiresRegistryLock(op) => regLock = Nil

\* The thread's record when it enters a call.
BeginProc(op, pc) == [IdleProc EXCEPT !.op = op, !.pc = pc, !.call = steps + 1]

\* A map without key k.
MapRemove(m, k) == [x \in (DOMAIN m) \ {k} |-> m[x]]

\* The spans a caller can hold: those a call has returned.
Published == (1..Len(spans)) \ {procs[t].child : t \in Threads}

\* The Tracers a caller can hold: those NewTracer has returned.
Returned == (1..created) \ {procs[t].arg : t \in {u \in Threads : procs[u].op = "NewTracer"}}

(* setShadowTracer, lines 129-140: the swap, then the Close of the old one. *)

\* atomic.SwapPointer(&t.shadowTracer, shadow) and the test of old.
DoSwap(t, hasManager, typ, call) ==
    LET new == IF hasManager
               THEN Append(shadows, [typ |-> typ, closed |-> FALSE])
               ELSE shadows
        old == shadowTracer
    IN /\ shadows' = new
       /\ shadowTracer' = IF hasManager THEN Len(new) ELSE Nil
       /\ swaps' = IF old # Nil
                   THEN MapSet(swaps, old, [by |-> call, closedBy |-> <<>>])
                   ELSE swaps
       /\ procs' = [procs EXCEPT ![t] =
                      IF old # Nil
                      THEN [IdleProc EXCEPT !.op = "setShadowTracer", !.pc = "close",
                                            !.call = call, !.old = old]
                      ELSE IdleProc]

SstSwap(t, hasManager, typ) ==
    /\ CanBegin(t, "setShadowTracer")
    /\ Tick
    /\ DoSwap(t, hasManager, typ, steps + 1)
    /\ UNCHANGED <<forceRealSpans, netTraceSetting, spans, baggages, numGroups,
                   draws, last, codecVars, tracers, regLock, mu, created, history>>

\* A Close of whatever the cell holds at the time of the Close.
CloseTargetCurrent(t) ==
    IF shadowTracer # Nil THEN shadowTracer ELSE procs[t].old

\* The shadow tracer setShadowTracer closes: the one the swap returned.
CloseTarget(t) == procs[t].old

\* (*shadowTracer)(old).Close()
SstClose(t) ==
    /\ procs[t].pc = "close"
    /\ LET target == CloseTarget(t) IN
       /\ shadows' = [shadows EXCEPT ![target].closed = TRUE]
       /\ swaps' = MapSet(swaps, target,
                      [by |-> IF target \in DOMAIN swaps THEN swaps[target].by ELSE 0,
                       closedBy |-> Append(IF target \in DOMAIN swaps
                                           THEN swaps[target].closedBy ELSE <<>>,
                                           procs[t].call)])
    /\ procs' = [procs EXCEPT ![t] = IdleProc]
    /\ UNCHANGED <<forceRealSpans, shadowTracer, netTraceSetting, spans, baggages,
                   numGroups, draws, last, steps, codecVars, tracers, regLock,
                   mu, created, history>>

(* Tracer.Close, lines 115-119: tracerRegistry.Remove, lines 683-694, then
   setShadowTracer(nil, nil). *)

\* tr.Lock() of Remove.
RemLock(t, tid) ==
    /\ CanBegin(t, "Close")
    /\ Tick
    /\ regLock' = t
    /\ procs' = [procs EXCEPT ![t] =
                    [BeginProc("Close", "remove") EXCEPT !.arg = tid, !.seen = tracers]]
    /\ UNCHANGED <<forceRealSpans, shadowTracer, netTraceSetting, spans, baggages,
                   numGroups, shadows, draws, last, codecVars, tracers, mu,
                   swaps, created, history>>

\* A removal that moves the last Tracer into the place of tid.
RemoveSwapLast(seq, tid) ==
    LET i == CHOOSE j \in 1..Len(seq) : seq[j] = tid
    IN SubSeq([seq EXCEPT ![i] = seq[Len(seq)]], 1, Len(seq) - 1)

\* tr.tracers without its first occurrence of tid.
RemoveFirst(seq, tid) ==
    LET i == CHOOSE j \in 1..Len(seq) :
                seq[j] = tid /\ \A k \in 1..(j - 1) : seq[k] # tid
    IN SubSeq(seq, 1, i - 1) \o SubSeq(seq, i + 1, Len(seq))

\* The loop of Remove: the Tracer is taken out, or the call panics.
RemScan(t) ==
    /\ procs[t].pc = "remove"
    /\ IF \E j \in 1..Len(tracers) : tracers[j] = procs[t].arg
       THEN /\ tracers' = RemoveFirst(tracers, procs[t].arg)
            /\ history' = [history EXCEPT !.removed = @ \cup {procs[t].arg}]
            /\ procs' = [procs EXCEPT ![t].pc = "removeUnlock"]
       ELSE /\ tracers' = tracers
            /\ history' = history
            /\ procs' = [procs EXCEPT ![t].pc = "panic"]
    /\ UNCHANGED <<forceRealSpans, shadowTracer, netTraceSetting, spans, baggages,
                   numGroups, shadows, draws, last, steps, codecVars, regLock,
                   mu, swaps, created>>

\* The deferred tr.Unlock() when Remove returns.
RemUnlock(t) ==
    /\ procs[t].pc = "removeUnlock"
    /\ regLock' = Nil
    /\ procs' = [procs EXCEPT ![t].pc = "closeSwap"]
    /\ UNCHANGED <<forceRealSpans, shadowTracer, netTraceSetting, spans, baggages,
                   numGroups, shadows, draws, last, steps, codecVars, tracers,
                   mu, swaps, created, history>>

\* A panic that runs no deferred call: the lock stays with the thread.
LockAfterPanicHeld(t) == regLock

\* The registry lock after panic("removing unknown tracer"): the deferred
\* tr.Unlock() has run.
LockAfterPanic(t) == Nil

\* The panic of Remove; Close does not go on to setShadowTracer.
RemPanic(t) ==
    /\ procs[t].pc = "panic"
    /\ regLock' = LockAfterPanic(t)
    /\ procs' = [procs EXCEPT ![t].pc = "panicked"]
    /\ UNCHANGED <<forceRealSpans, shadowTracer, netTraceSetting, spans, baggages,
                   numGroups, shadows, draws, last, steps, codecVars, tracers,
                   mu, swaps, created, history>>

\* t.setShadowTracer(nil, nil) of Close.  The model holds the cell of the
\* first Tracer only.
CloseSwap(t) ==
    /\ procs[t].pc = "closeSwap"
    /\ IF procs[t].arg = Len(<<Nil>>)
       THEN DoSwap(t, FALSE, <<>>, procs[t].call)
       ELSE /\ procs' = [procs EXCEPT ![t] = IdleProc]
            /\ UNCHANGED <<shadowTracer, shadows, swaps>>
    /\ UNCHANGED <<forceRealSpans, netTraceSetting, spans, baggages, numGroups,
                   draws, last, steps, codecVars, tracers, regLock, mu, created, history>>

(* NewTracer, lines 106-112, with tracerRegistry.Add, lines 677-681. *)

\* t := &Tracer{}, lines 107-109: the Tracer exists, the registry does not
\* hold it yet.
NtCreate(t) ==
    /\ procs[t].pc = "idle"
    /\ Tick
    /\ created' = created + 1
    /\ procs' = [procs EXCEPT ![t] =
                    [BeginProc("NewTracer", "addLock") EXCEPT !.arg = created + 1]]
    /\ UNCHANGED <<forceRealSpans, shadowTracer, netTraceSetting, spans, baggages,
                   numGroups, shadows, draws, last, codecVars, tracers, regLock,
                   mu, swaps, history>>

\* tr.Lock() of Add.
AddLock(t) ==
    /\ procs[t].pc = "addLock"
    /\ AcquiresRegistryLock(procs[t].op) => regLock = Nil
    /\ regLock' = t
    /\ procs' = [procs EXCEPT ![t].pc = "add"]
    /\ UNCHANGED <<forceRealSpans, shadowTracer, netTraceSetting, spans, baggages,
                   numGroups, shadows, draws, last, steps, codecVars, tracers,
                   mu, swaps, created, history>>

\* tr.tracers = append(tr.tracers, t) and tr.Unlock().
AddAppend(t) ==
    /\ procs[t].pc = "add"
    /\ tracers' = Append(tracers, procs[t].arg)
    /\ history' = [history EXCEPT !.added = Append(@, procs[t].arg)]
    /\ regLock' = Nil
    /\ procs' = [procs EXCEPT ![t] = IdleProc]
    /\ UNCHANGED <<forceRealSpans, shadowTracer, netTraceSetting, spans, baggages,
                   numGroups, shadows, draws, last, steps, codecVars, mu, swaps,
                   created>>

(* tracerRegistry.ForEach, lines 696-702. *)

FeLock(t) ==
    /\ CanBegin(t, "ForEach")
    /\ Tick
    /\ regLock' = t
    /\ procs' = [procs EXCEPT ![t] = BeginProc("ForEach", "visit")]
    /\ UNCHANGED <<forceRealSpans, shadowTracer, netTraceSetting, spans, baggages,
                   numGroups, shadows, draws, last, codecVars, tracers, mu,
                   swaps, created, history>>

\* fn(t) for the next Tracer of the slice.
FeVisit(t) ==
    /\ procs[t].pc = "visit"
    /\ Len(procs[t].seen) < Len(tracers)
    /\ procs' = [procs EXCEPT ![t].seen = Append(@, tracers[Len(@) + 1])]
    /\ UNCHANGED <<forceRealSpans, shadowTracer, netTraceSetting, spans, baggages,
                   numGroups, shadows, draws, last, steps, codecVars, tracers,
                   regLock, mu, swaps, created, history>>

\* The deferred tr.Unlock() after the loop.
FeUnlock(t) ==
    /\ procs[t].pc = "visit"
    /\ Len(procs[t].seen) = Len(tracers)
    /\ regLock' = Nil
    /\ procs' = [procs EXCEPT ![t] = IdleProc]
    /\ UNCHANGED <<forceRealSpans, shadowTracer, netTraceSetting, spans, baggages,
                   numGroups, shadows, draws, last, steps, codecVars, tracers,
                   mu, swaps, created, history>>

(* Tracer.StartSpan, lines 158-290, in two steps: up to the reads of the
   setting and of the shadow tracer, and the rest. *)

\* The option lists the threads pass.
ThreadOptLists ==
    {<<>>, <<RecordableOpt>>, <<RefOpt(ChildOfRef, NoopCtx)>>}
    \cup {<<RefOpt(ChildOfRef, Context(i))>> : i \in Published}

\* Lines 164-173: the first fast path, then enableNetTrace.Get() and
\* t.getShadowTracer().
SsLoad(t, opts) ==
    /\ CanBegin(t, "StartSpan")
    /\ Tick
    /\ IF NoopRefFastPath(opts)
       THEN /\ last' = StartSpanCall(opts, NoopResult)
            /\ UNCHANGED procs
       ELSE /\ procs' = [procs EXCEPT ![t] =
                           [BeginProc("StartSpan", "build") EXCEPT
                               !.opts = opts,
                               !.netTrace = netTraceSetting,
                               !.shadowTr = shadowTracer]]
            /\ UNCHANGED last
    /\ UNCHANGED <<forceRealSpans, shadowTracer, netTraceSetting, spans, baggages,
                   numGroups, shadows, draws, codecVars, tracers, regLock, mu,
                   swaps, created, history>>

\* Lines 175-289, with the values read before.
SsBuild(t) ==
    /\ procs[t].pc = "build"
    /\ LET opts == procs[t].opts
           noop == StartSpanIsNoopWith(opts, procs[t].netTrace, procs[t].shadowTr)
       IN \E rt \in IF noop THEN {<<>>} ELSE RandVals,
             rs \in IF noop THEN {<<>>} ELSE RandVals :
            LET r == StartSpanResultWith(opts, procs[t].netTrace,
                                         procs[t].shadowTr, rt, rs) IN
            /\ Returns(r)
            /\ last' = StartSpanCall(opts, r)
    /\ procs' = [procs EXCEPT ![t] = IdleProc]
    /\ UNCHANGED <<forceRealSpans, shadowTracer, netTraceSetting, shadows, steps,
                   codecVars, tracers, regLock, mu, swaps, created, history>>

(* StartChildSpan, lines 304-356. *)

\* Lines 307-320: the test of the parent and the new span object.
CsBegin(t, p, separateRecording) ==
    /\ CanBegin(t, "StartChildSpan")
    /\ Tick
    /\ IF IsBlackHoleSpan(p)
       THEN /\ last' = [NoCall EXCEPT !.op = "StartChildSpan", !.noop = TRUE]
            /\ UNCHANGED procs
       ELSE /\ procs' = [procs EXCEPT ![t] =
                           [BeginProc("StartChildSpan", "lock") EXCEPT
                               !.arg = p, !.sep = separateRecording]]
            /\ UNCHANGED last
    /\ UNCHANGED <<forceRealSpans, shadowTracer, netTraceSetting, spans, baggages,
                   numGroups, shadows, draws, codecVars, tracers, regLock, mu,
                   swaps, created, history>>

\* pSpan.mu.Lock()
CsLock(t) ==
    /\ procs[t].pc = "lock"
    /\ procs[t].arg \notin DOMAIN mu
    /\ mu' = MapSet(mu, procs[t].arg, t)
    /\ procs' = [procs EXCEPT ![t].pc = "copy"]
    /\ UNCHANGED <<forceRealSpans, shadowTracer, netTraceSetting, spans, baggages,
                   numGroups, shadows, draws, last, steps, codecVars, tracers,
                   regLock, swaps, created, history>>

\* Lines 324-352 up to the first call that takes the child's lock (SetTag,
\* enableRecording): the child is built from the parent's state.
CsCopy(t) ==
    /\ procs[t].pc = "copy"
    /\ \E rs \in RandVals :
         Returns(StartChildSpanResult(procs[t].arg, procs[t].sep, rs))
    /\ mu' = MapSet(mu, NewSpanIndex, t)
    /\ procs' = [procs EXCEPT ![t].pc = "child", ![t].child = NewSpanIndex]
    /\ UNCHANGED <<forceRealSpans, shadowTracer, netTraceSetting, shadows, last,
                   steps, codecVars, tracers, regLock, swaps, created, history>>

\* The child's lock is released again.
CsChildUnlock(t) ==
    /\ procs[t].pc = "child"
    /\ mu' = MapRemove(mu, procs[t].child)
    /\ procs' = [procs EXCEPT ![t].pc = "unlock"]
    /\ UNCHANGED <<forceRealSpans, shadowTracer, netTraceSetting, spans, baggages,
                   numGroups, shadows, draws, last, steps, codecVars, tracers,
                   regLock, swaps, created, history>>

\* An exit that leaves the parent's lock with the thread.
ParentUnlockSkipped(t) == mu

\* pSpan.mu.Unlock()
ParentUnlock(t) == MapRemove(mu, procs[t].arg)

\* Lines 354-355: the parent's lock is released and the child returned.
CsUnlock(t) ==
    /\ procs[t].pc = "unlock"
    /\ mu' = ParentUnlock(t)
    /\ last' = [NoCall EXCEPT !.op = "StartChildSpan",
                              !.span = procs[t].child,
                              !.hasParent = TRUE,
                              !.parent = procs[t].arg]
    /\ procs' = [procs EXCEPT ![t] = IdleProc]
    /\ UNCHANGED <<forceRealSpans, shadowTracer, netTraceSetting, spans, baggages,
                   numGroups, shadows, draws, steps, codecVars, tracers, regLock,
                   swaps, created, history>>

(* The steps of one thread, and the specifications of the threads. *)

\* The steps of the calls on the shadow tracer and on the registry.
RegistryStep(t) ==
    \/ \E m \in BOOLEAN, typ \in ShadowTypes : SstSwap(t, m, typ)
    \/ SstClose(t)
    \/ \E tid \in Returned : RemLock(t, tid)
    \/ RemScan(t)
    \/ RemUnlock(t)
    \/ RemPanic(t)
    \/ CloseSwap(t)
    \/ NtCreate(t)
    \/ AddLock(t)
    \/ AddAppend(t)
    \/ FeLock(t)
    \/ FeVisit(t)
    \/ FeUnlock(t)

\* The steps of StartSpan.
StartSpanStep(t) ==
    \/ \E opts \in ThreadOptLists : SsLoad(t, opts)
    \/ SsBuild(t)

\* The steps of StartChildSpan.
ChildSpanStep(t) ==
    \/ \E p \in {0} \cup Published, sep \in BOOLEAN : CsBegin(t, p, sep)
    \/ CsLock(t)
    \/ CsCopy(t)
    \/ CsChildUnlock(t)
    \/ CsUnlock(t)

-----------------------------------------------------------------------------
(* The specification of the Tracer and its spans. *)

\* NewTracer(): no span yet, the setting at its default, no shadow tracer.
Init ==
    /\ forceRealSpans = FALSE
    /\ shadowTracer = Nil
    /\ netTraceSetting = FALSE
    /\ spans = <<>>
    /\ baggages = <<>>
    /\ numGroups = 0
    /\ shadows = <<>>
    /\ draws = 0
    /\ last = NoCall
    /\ steps = 0
    /\ carrier = NoCarrier
    /\ injected = NoInject
    /\ extracted = NoExtract
    /\ ThreadsIdle

Next ==
    \/ \E opts \in OptLists : StartSpan(opts)
    \/ \E p \in 0..Len(spans), sep \in BOOLEAN : StartChildSpan(p, sep)
    \/ \E v \in BOOLEAN : SetForceRealSpans(v)
    \/ \E v \in BOOLEAN : SetNetTrace(v)
    \/ \E m \in BOOLEAN, typ \in ShadowTypes : setShadowTracer(m, typ)
    \/ \E i \in 1..Len(spans), k \in BagKeys, v \in BagVals : SetBaggageItem(i, k, v)
    \/ \E i \in 1..Len(spans), t \in {SnowballRecording, ExplicitRecording} :
            StartRecording(i, t)
    \/ \E i \in 1..Len(spans) : StopRecording(i)

Spec == Init /\ [][Next]_vars

\* NewTracer() when the cluster settings name a shadow tracer:
\* updateShadowTracer installs it before the Tracer is returned.
InitShadow ==
    /\ forceRealSpans = FALSE
    /\ shadowTracer = Len(<<Nil>>)
    /\ netTraceSetting = FALSE
    /\ spans = <<>>
    /\ baggages = <<>>
    /\ numGroups = 0
    /\ shadows = <<[typ |-> <<"l","s">>, closed |-> FALSE]>>
    /\ draws = 0
    /\ last = NoCall
    /\ steps = 0
    /\ carrier = NoCarrier
    /\ injected = NoInject
    /\ extracted = NoExtract
    /\ ThreadsIdle

SpecShadow == InitShadow /\ [][Next]_vars

\* A Tracer with a shadow tracer, and a caller's empty carrier.
InitThreads ==
    /\ forceRealSpans = FALSE
    /\ shadowTracer = Len(<<Nil>>)
    /\ netTraceSetting = FALSE
    /\ spans = <<>>
    /\ baggages = <<>>
    /\ numGroups = 0
    /\ shadows = <<[typ |-> <<"l","s">>, closed |-> FALSE]>>
    /\ draws = 0
    /\ last = NoCall
    /\ steps = 0
    /\ carrier = EmptyCarrier
    /\ injected = NoInject
    /\ extracted = NoExtract
    /\ ThreadsIdle

\* Threads that replace the shadow tracer, use the registry and start spans,
\* and a caller that injects and extracts.
NextThreads ==
    \/ \E t \in Threads : RegistryStep(t)
    \/ \E t \in Threads : StartSpanStep(t)
    \/ \E t \in Threads : ChildSpanStep(t)
    \/ Inject(RemoteCtx, "TextMap", "ok")
    \/ Extract("TextMap")

SpecThreads == InitThreads /\ [][NextThreads]_vars

\* Threads that start spans and child spans; every thread that can take a
\* step eventually takes one.
NextChild ==
    \/ \E t \in Threads : StartSpanStep(t)
    \/ \E t \in Threads : ChildSpanStep(t)

SpecChild ==
    /\ InitThreads
    /\ [][NextChild]_vars
    /\ \A t \in Threads : WF_vars(StartSpanStep(t) \/ ChildSpanStep(t))

-----------------------------------------------------------------------------
(* The specification of the wire format: one carrier, written by Inject and
   read by Extract, on a Tracer whose shadow tracer is set or not. *)

UpperKey(s) == [i \in 1..Len(s) |-> ToUpperChar(s[i])]

\* textproto.CanonicalMIMEHeaderKey: the form in which an HTTP transport
\* delivers a header name.
CanonicalKey(s) ==
    [i \in 1..Len(s) |->
        IF i = 1 THEN ToUpperChar(s[i])
        ELSE IF s[i - 1] = "-" THEN ToUpperChar(s[i]) ELSE ToLowerChar(s[i])]

\* A hexadecimal text one digit too long for 64 bits.
OverflowText == <<"1">> \o [i \in 1..(UintBits \div 4) |-> "0"]

\* The largest uint64.
MaxUint64 == [i \in 1..(UintBits \div 4) |-> HexBase - 1]

\* Pairs a carrier holds when it arrives from the network.
WireMaps ==
    { fieldNameTraceID :> <<"z","z">>,
      fieldNameTraceID :> OverflowText,
      fieldNameSpanID :> <<>>,
      <<"o">> :> <<"v">>,
      (prefixBaggage \o <<"k">>) :> <<"1">>,
      fieldNameShadowType :> <<"l","s">>,
      fieldNameTraceID :> <<"0">> @@ fieldNameSpanID :> <<"0">>,
      UpperKey(fieldNameTraceID) :> <<"A","5">> @@ fieldNameSpanID :> <<"1">>,
      fieldNameTraceID :> <<"a","5">> @@ CanonicalKey(fieldNameSpanID) :> <<"-","1">>,
      fieldNameTraceID :> <<"1">> @@ CanonicalKey(fieldNameTraceID) :> <<"2">>
          @@ fieldNameSpanID :> <<"1">>,
      fieldNameTraceID :> <<"a","5">> @@ (prefixBaggage \o <<"k">>) :> <<"w">>
          @@ CanonicalKey(prefixBaggage \o <<"k">>) :> <<"v">>,
      fieldNameTraceID :> <<"a","5">> @@ fieldNameSpanID :> <<"1">>
          @@ fieldNameShadowType :> <<"L","S">>
          @@ (prefixShadow \o <<"i","d">>) :> <<"7">> }

\* The carriers a behaviour starts with: an empty one of every type, and
\* carriers that hold pairs already.
InitCarriers ==
    {CarrierOf(k, EmptyMap) :
        k \in {"TextMapCarrier", "textMapWriterFn", "textMapReaderFn", "other"}}
    \cup {CarrierOf("textMapReaderFn", m) : m \in WireMaps}
    \cup {CarrierOf("TextMapCarrier", m) :
            m \in {w \in WireMaps : Cardinality(DOMAIN w) <= 1}}

\* The shadow tracers made so far and the current one: none, one, or a
\* second one that replaced (and closed) the first.
ShadowConfigs ==
    { [shadows |-> <<>>, cur |-> Nil],
      [shadows |-> <<[typ |-> <<"l","s">>, closed |-> FALSE]>>, cur |-> Len(<<Nil>>)],
      [shadows |-> <<[typ |-> <<"l","s">>, closed |-> TRUE],
                     [typ |-> <<"z","k">>, closed |-> FALSE]>>,
       cur |-> Len(<<Nil, Nil>>)] }

\* The contexts handed to Inject.
InjectIDs == {<<>>, <<10,5>>, MaxUint64}
InjectBaggages == {EmptyMap, <<"k">> :> <<"1">>, <<"K">> :> <<"1">>}
InjectCtxs ==
    {NoopCtx, ForeignCtx} \cup
    {[NoopCtx EXCEPT !.kind = "span", !.TraceID = t, !.SpanID = s,
                     !.Baggage = b, !.shadowTr = h,
                     !.shadowCtx = IF h = Nil THEN Nil ELSE h] :
        t \in InjectIDs, s \in {<<>>, <<1>>}, b \in InjectBaggages,
        h \in {Nil} \cup (1..Len(shadows))}

InitCodec ==
    /\ forceRealSpans = FALSE
    /\ netTraceSetting = FALSE
    /\ spans = <<>>
    /\ baggages = <<>>
    /\ numGroups = 0
    /\ draws = 0
    /\ last = NoCall
    /\ steps = 0
    /\ \E cfg \in ShadowConfigs : shadows = cfg.shadows /\ shadowTracer = cfg.cur
    /\ carrier \in InitCarriers
    /\ injected = NoInject
    /\ extracted = NoExtract
    /\ ThreadsIdle

NextCodec ==
    \/ \E osc \in InjectCtxs, format \in Formats :
        \E o \in IF osc.shadowTr = Nil THEN {"ok"} ELSE ShadowInjectOutcomes :
            Inject(osc, format, o)
    \/ \E format \in Formats : Extract(format)

SpecCodec == InitCodec /\ [][NextCodec]_vars

-----------------------------------------------------------------------------
(* Claims about span creation, checked under Spec. *)

\* The span object the last call returned, and the baggage and the span of
\* the parent that call resolved.
LastSpan == spans[last.span]
LastParentBaggage ==
    IF last.parent = 0 THEN RemoteCtx.Baggage ELSE BaggageOf(spans[last.parent])
Created == last.op \in {"StartSpan", "StartChildSpan"}

\* C1: StartSpan returns the Tracer's preallocated noop span (handle 0)
\* whenever no option references a real context, the debug-trace setting is
\* off, the Tracer has no shadow tracer, Recordable is absent and
\* forceRealSpans is false.
C1_NoopWhenNothingNeedsASpan ==
    ( /\ last.op = "StartSpan"
      /\ ~last.realRef
      /\ ~netTraceSetting
      /\ shadowTracer = Nil
      /\ ~last.recordable
      /\ ~forceRealSpans )
    => (last.noop /\ last.span = 0)

\* C1 witness: such a call was made with options that pass both fast paths
\* (the call resolved no parent and was not a sole noop reference), on a
\* Tracer that has made a real span before.
C1_Witness ==
    /\ last.op = "StartSpan"
    /\ ~last.realRef /\ ~last.recordable /\ ~last.soleNoopRef
    /\ ~netTraceSetting /\ shadowTracer = Nil /\ ~forceRealSpans
    /\ last.noop
    /\ Len(spans) > 0

\* C2 (as claimed): StartSpan with a sole ChildOf/FollowsFrom reference to a
\* noop context returns the same kind of result (noop or real) as StartSpan
\* without options does under the same Tracer configuration.
C2_NoopParentIsNoParent ==
    (last.op = "StartSpan" /\ last.soleNoopRef)
    => (last.noop <=> StartSpanIsNoop(<<>>))

\* The comparison of C3: two results agree on noop-versus-real and, when
\* real, on TraceID, parent span id, baggage, recording group and kind,
\* shadow tracer and presence of a debug sink.
SameResult(a, b) ==
    /\ a.noop = b.noop
    /\ ~a.noop =>
        /\ a.span.TraceID = b.span.TraceID
        /\ a.span.parentSpanID = b.span.parentSpanID
        /\ (IF a.span.Baggage = Nil THEN EmptyMap ELSE a.bag)
             = (IF b.span.Baggage = Nil THEN EmptyMap ELSE b.bag)
        /\ a.span.recordingGroup = b.span.recordingGroup
        /\ a.span.recordingType = b.span.recordingType
        /\ a.span.shadowTr = b.span.shadowTr
        /\ a.span.netTr = b.span.netTr

\* C3 (as claimed): for every real span p, StartChildSpan(op, p, false) and
\* StartSpan(op, ChildOf(p.Context())) return equivalent results.
C3_ChildSpanEquivalent ==
    \A p \in 1..Len(spans) : \A rs \in RandVals :
        SameResult(StartChildSpanResult(p, FALSE, rs),
                   StartSpanResult(<<RefOpt(ChildOfRef, Context(p))>>, rs, rs))

C5_SnowballBaggageRecords ==
    (Created /\ last.hasParent /\ MapGet(LastParentBaggage, Snowball) # <<>>)
    => ( /\ ~last.noop
         /\ isRecording(LastSpan)
         /\ LastSpan.recordingType = SnowballRecording )

\* The baggage span i reads, before and after a step.
BaggageAt(i) == BaggageOf(spans[i])
BaggageAfter(i) ==
    IF spans'[i].Baggage = Nil THEN EmptyMap ELSE baggages'[spans'[i].Baggage]

\* C6: right after a call created a child from a parent, the child's baggage
\* equals the parent's; and a step that changes the baggage of one span
\* changes the baggage of no other span.
C6_BaggageCopiedByValue ==
    [][ /\ (Created' /\ last'.hasParent /\ ~last'.noop)
            => BaggageAfter(last'.span) =
               (IF last'.parent = 0 THEN RemoteCtx.Baggage
                                    ELSE BaggageAfter(last'.parent))
        /\ \A i, j \in 1..Len(spans) :
            (i # j /\ BaggageAfter(i) # BaggageAt(i)) => BaggageAfter(j) = BaggageAt(j)
      ]_vars

\* C6 witness: a parent's baggage was changed after a child had copied it.
C6_Witness ==
    \E i, j \in 1..Len(spans) :
        /\ spans[j].hasParent /\ spans[j].parent = i
        /\ BaggageAt(j) # EmptyMap
        /\ BaggageAt(i) # BaggageAt(j)

\* The span at the root of span i's local tree.
RECURSIVE RootOf(_)
RootOf(i) ==
    IF spans[i].hasParent /\ spans[i].parent # 0 THEN RootOf(spans[i].parent) ELSE i

\* C7: a span without a parent has a TraceID drawn for it, every span of its
\* subtree has that TraceID, and every span has a SpanID drawn for it alone
\* and its parent's SpanID as parent span id.
C7_TraceIDInherited ==
    \A i \in 1..Len(spans) :
        LET s == spans[i] IN
        /\ s.spanDraw \in 1..draws
        /\ \A j \in 1..Len(spans) :
                /\ j # i => spans[j].spanDraw # s.spanDraw
                /\ spans[j].traceDraw # s.spanDraw
        /\ ~s.hasParent =>
                /\ s.traceDraw \in 1..draws
                /\ \A j \in 1..Len(spans) : j # i => spans[j].traceDraw # s.traceDraw
        /\ s.TraceID = spans[RootOf(i)].TraceID
        /\ (s.hasParent /\ s.parent # 0) =>
                /\ s.traceDraw = 0
                /\ s.TraceID = spans[s.parent].TraceID
                /\ s.parentSpanID = spans[s.parent].SpanID
        /\ (s.hasParent /\ s.parent = 0) =>
                /\ s.traceDraw = 0
                /\ s.TraceID = RemoteCtx.TraceID
                /\ s.parentSpanID = RemoteCtx.SpanID

\* C7 witness: a tree three spans deep, made by both operations, whose ids
\* were drawn with different values.
C7_Witness ==
    \E i, j, k \in 1..Len(spans) :
        /\ ~spans[i].hasParent
        /\ spans[j].hasParent /\ spans[j].parent = i
        /\ spans[k].hasParent /\ spans[k].parent = j
        /\ spans[j].via # spans[k].via
        /\ spans[i].TraceID # spans[i].SpanID
        /\ spans[k].TraceID = spans[i].TraceID

-----------------------------------------------------------------------------
(* Claims about the wire format, checked under SpecCodec. *)

\* A real context without a shadow tracer was injected into an empty text-map
\* carrier and the carrier was then read by Extract, both in a text format.
RoundTripCase ==
    /\ injected.done
    /\ injected.ctx.kind = "span"
    /\ injected.ctx.shadowTr = Nil
    /\ injected.before = EmptyCarrier
    /\ SupportedFormat(injected.format)
    /\ extracted.done
    /\ SupportedFormat(extracted.format)

\* Extract succeeded and returned the identity and baggage that were injected.
RoundTripSame ==
    /\ extracted.err = ErrNil
    /\ extracted.ctx.kind = "span"
    /\ extracted.ctx.TraceID = injected.ctx.TraceID
    /\ extracted.ctx.SpanID = injected.ctx.SpanID
    /\ extracted.ctx.Baggage = injected.ctx.Baggage

\* C8 as stated: for every real span context without a shadow tracer, with
\* any TraceID, SpanID and baggage, Inject into an empty text-map carrier
\* followed by Extract succeeds and returns the same TraceID, SpanID and
\* baggage.
C8_RoundTrip == RoundTripCase => RoundTripSame

\* C8, amended: the round trip returns the same TraceID, SpanID and baggage
\* for every real span context without a shadow tracer whose TraceID and
\* SpanID are not both zero and whose baggage keys hold no uppercase letter.
C8_RoundTripAmended ==
    ( /\ RoundTripCase
      /\ ~(injected.ctx.TraceID = <<>> /\ injected.ctx.SpanID = <<>>)
      /\ \A k \in DOMAIN injected.ctx.Baggage : ToLower(k) = k )
    => RoundTripSame

\* The largest TraceID, a zero SpanID and a baggage entry went through.
C8_Witness ==
    /\ RoundTripCase
    /\ injected.ctx.TraceID = MaxUint64
    /\ injected.ctx.SpanID = <<>>
    /\ injected.ctx.Baggage # EmptyMap
    /\ extracted.ctx.TraceID = MaxUint64
    /\ extracted.ctx.Baggage # EmptyMap

\* No key of the carrier is, read without regard to case, the trace-id or
\* the span-id key.
NoIDEntry(m) ==
    \A k \in DOMAIN m : ToLower(k) \notin {fieldNameTraceID, fieldNameSpanID}

\* C9: Extract in a text format on a readable carrier that holds neither a
\* trace-id nor a span-id entry returns the noop context and a nil error.
C9_NoTraceIsNoop ==
    ( /\ extracted.done
      /\ SupportedFormat(extracted.format)
      /\ IsTextMapReader(carrier)
      /\ NoIDEntry(carrier.m) )
    => (extracted.ctx = NoopCtx /\ extracted.err = ErrNil)

\* Extract read a carrier that holds pairs, none of them an id.
C9_Witness ==
    /\ extracted.done
    /\ SupportedFormat(extracted.format)
    /\ IsTextMapReader(carrier)
    /\ carrier.m # EmptyMap
    /\ NoIDEntry(carrier.m)
    /\ extracted.ctx = NoopCtx

\* Some trace-id or span-id entry of the carrier holds a value ParseUint
\* rejects.
UnparsableID(m) ==
    \E k \in DOMAIN m :
        /\ ToLower(k) \in {fieldNameTraceID, fieldNameSpanID}
        /\ ~ParseUint(m[k]).ok

\* C10: whenever Extract returns an error the context it returns is the noop
\* context, and an unparsable trace-id or span-id value in a readable carrier
\* read in a text format yields ErrSpanContextCorrupted.
C10_ErrorsReturnNoop ==
    extracted.done =>
        /\ extracted.err # ErrNil => extracted.ctx = NoopCtx
        /\ ( /\ SupportedFormat(extracted.format)
             /\ IsTextMapReader(carrier)
             /\ UnparsableID(carrier.m) )
           => extracted.err = ErrSpanContextCorrupted

\* Extract failed on a carrier one id of which parses and the other does not.
C10_Witness ==
    /\ extracted.done
    /\ extracted.err = ErrSpanContextCorrupted
    /\ extracted.ctx = NoopCtx
    /\ \E k \in DOMAIN carrier.m :
            ToLower(k) = fieldNameTraceID /\ ParseUint(carrier.m[k]).ok
    /\ UnparsableID(carrier.m)

\* The values of the carrier's shadow-type entries, the key read without
\* regard to case.
ShadowTypeEntries(m) ==
    {m[k] : k \in {x \in DOMAIN m : ToLower(x) = fieldNameShadowType}}

\* The Tracer has a shadow tracer and the carrier a shadow-type entry of its
\* type, compared ignoring case.
ShadowTypeCarried ==
    /\ shadowTracer # Nil
    /\ \E v \in ShadowTypeEntries(carrier.m) :
            ToLower(v) = ToLower(shadows[shadowTracer].typ)

\* The carrier without its shadow-type and shadow-payload entries.
StripShadow(c) ==
    [c EXCEPT !.m =
        [k \in {x \in DOMAIN c.m : /\ ToLower(x) # fieldNameShadowType
                                    /\ ~HasPrefix(ToLower(x), prefixShadow)}
            |-> c.m[k]]]

\* C11: the context Extract returns holds a shadow tracer or a shadow context
\* only if the carrier has a shadow-type entry of the type of the Tracer's
\* current shadow tracer (ignoring case), and then the tracer it holds is that
\* one; in every other case Extract returns what it returns for the carrier
\* without its shadow entries.
C11_ShadowOnlyOnTypeMatch ==
    extracted.done =>
        /\ (extracted.ctx.shadowTr # Nil \/ extracted.ctx.shadowCtx # Nil)
              => (ShadowTypeCarried /\ extracted.ctx.shadowTr = shadowTracer)
        /\ ~ShadowTypeCarried
              => [ctx |-> extracted.ctx, err |-> extracted.err]
                    \in ExtractResults(extracted.format, StripShadow(carrier))

\* A carrier with shadow entries of another type than the Tracer's shadow
\* tracer was read: ids returned, nil error, no shadow tracer attached.
C11_Witness ==
    /\ extracted.done
    /\ shadowTracer # Nil
    /\ ShadowTypeEntries(carrier.m) # {}
    /\ \E k \in DOMAIN carrier.m : HasPrefix(ToLower(k), prefixShadow)
    /\ ~ShadowTypeCarried
    /\ extracted.err = ErrNil
    /\ extracted.ctx.kind = "span"
    /\ extracted.ctx.TraceID = <<10,5>>
    /\ extracted.ctx.shadowTr = Nil

\* C12: Inject of a context that is not the noop context fails with
\* ErrUnsupportedFormat when the format is neither HTTPHeaders nor TextMap,
\* else with ErrInvalidCarrier when the carrier is no TextMapWriter, else
\* with ErrInvalidSpanContext when the context is no *spanContext; Inject of
\* the noop context returns nil and leaves the carrier as it was.
C12_InjectErrorsInOrder ==
    injected.done =>
        IF injected.ctx.kind = "noop"
        THEN injected.err = ErrNil /\ carrier = injected.before
        ELSE IF ~SupportedFormat(injected.format)
        THEN injected.err = ErrUnsupportedFormat
        ELSE IF ~IsTextMapWriter(injected.before)
        THEN injected.err = ErrInvalidCarrier
        ELSE IF injected.ctx.kind # "span"
        THEN injected.err = ErrInvalidSpanContext
        ELSE injected.err \in {ErrNil, ErrShadow}

\* Inject was called with an unsupported format, a carrier that cannot be
\* written and a context of another implementation, all three at once.
C12_Witness ==
    /\ injected.done
    /\ ~SupportedFormat(injected.format)
    /\ ~IsTextMapWriter(injected.before)
    /\ injected.ctx.kind = "foreign"
    /\ injected.err = ErrUnsupportedFormat

-----------------------------------------------------------------------------
(* Claims about the shadow tracer, checked under SpecShadow. *)

\* C13: no step changes the shadow tracer an existing span holds, and every
\* span created from a local parent, by StartChildSpan or by StartSpan with
\* a reference to the parent's context, holds the shadow tracer its parent
\* holds.
C13_ShadowTracerCached ==
    [][ /\ \A i \in 1..Len(spans) : spans'[i].shadowTr = spans[i].shadowTr
        /\ \A i \in 1..Len(spans') :
              (spans'[i].hasParent /\ spans'[i].parent # 0)
                 => spans'[i].shadowTr = spans'[spans'[i].parent].shadowTr
      ]_vars

\* A call made a child of a span that holds a shadow tracer the Tracer has
\* replaced since; the child holds the parent's.
C13_Witness ==
    /\ Created
    /\ ~last.noop
    /\ LastSpan.hasParent
    /\ LastSpan.parent # 0
    /\ LastSpan.shadowTr # Nil
    /\ LastSpan.shadowTr = spans[LastSpan.parent].shadowTr
    /\ shadowTracer # LastSpan.shadowTr

\* C15: no span holds a shadow tracer that has been closed (the model has no
\* Finish: every span is open).
C15_ShadowNotClosedWhileHeld ==
    \A i \in 1..Len(spans) :
        spans[i].shadowTr # Nil => ~shadows[spans[i].shadowTr].closed

\* C16 as stated: whenever StartSpan returns a real span while the Tracer has
\* a shadow tracer, the span has a mirrored span, linked to the parent's
\* shadow context (if the parent has one) with the type of the reference.
C16_MirroredWhenConfigured ==
    (last.op = "StartSpan" /\ ~last.noop /\ shadowTracer # Nil) =>
        /\ LastSpan.shadowTr # Nil
        /\ LastSpan.shadowSpan.open
        /\ (last.hasParent /\ last.parent # 0
                /\ spans[last.parent].shadowTr # Nil)
              => /\ LastSpan.shadowSpan.parentCtx = last.parent
                 /\ LastSpan.shadowSpan.refType = last.refType

\* C16, amended: a real span StartSpan returns without a parent while the
\* Tracer has a shadow tracer has a mirrored span in that tracer; a real
\* span it returns for a parent context that holds a shadow tracer has a
\* mirrored span in the parent's tracer, linked to the parent's shadow
\* context with the type of the reference; a real span it returns for a
\* parent context without a shadow tracer has no mirrored span.
C16_MirroredAsParent ==
    (last.op = "StartSpan" /\ ~last.noop) =>
        IF ~last.hasParent
        THEN IF shadowTracer # Nil
             THEN /\ LastSpan.shadowTr = shadowTracer
                  /\ LastSpan.shadowSpan.open
                  /\ LastSpan.shadowSpan.parentCtx = Nil
             ELSE LastSpan.shadowTr = Nil /\ ~LastSpan.shadowSpan.open
        ELSE IF last.parent # 0 /\ spans[last.parent].shadowTr # Nil
             THEN /\ LastSpan.shadowTr = spans[last.parent].shadowTr
                  /\ LastSpan.shadowSpan.open
                  /\ LastSpan.shadowSpan.parentCtx = last.parent
                  /\ LastSpan.shadowSpan.refType = last.refType
             ELSE LastSpan.shadowTr = Nil /\ ~LastSpan.shadowSpan.open

\* StartSpan made a span with a FollowsFrom reference to a span that holds a
\* shadow tracer: the mirrored span follows from the parent's.
C16_Witness ==
    /\ last.op = "StartSpan"
    /\ ~last.noop
    /\ shadowTracer # Nil
    /\ last.hasParent
    /\ last.parent # 0
    /\ last.refType = FollowsFromRef
    /\ spans[last.parent].shadowTr # Nil
    /\ LastSpan.shadowSpan.open
    /\ LastSpan.shadowSpan.refType = FollowsFromRef

\* C19: every real span has the duration -1 (the model has no Finish: every
\* span is open).
C19_DurationMarksOpen ==
    \A i \in 1..Len(spans) : spans[i].duration = -1

-----------------------------------------------------------------------------
(* Claims about concurrent callers, checked under SpecThreads. *)

\* A thread that is to read the Tracer's cell, or has read it, can take its
\* step of StartSpan.
StartSpanNeverWaits ==
    \A t \in Threads :
        /\ (procs[t].pc = "idle" /\ steps < MaxSteps) => ENABLED SsLoad(t, <<>>)
        /\ procs[t].pc = "build" => ENABLED SsBuild(t)

\* C14: a shadow tracer is closed only if a swap took it out of the Tracer's
\* cell, at most once, by the call that made that swap, and the cell never
\* points to it again; one that was swapped out and is not yet closed is the
\* old one of the call that swapped it out, which is about to close it; and
\* a StartSpan that reads the cell can always take its step.
C14_ReplacedClosedOnce ==
    /\ \A i \in 1..Len(shadows) :
          /\ shadows[i].closed => i \in DOMAIN swaps
          /\ i \in DOMAIN swaps =>
                /\ shadowTracer # i
                /\ Len(swaps[i].closedBy) <= 1
                /\ shadows[i].closed <=> swaps[i].closedBy # <<>>
                /\ swaps[i].closedBy # <<>> => swaps[i].closedBy[1] = swaps[i].by
                /\ swaps[i].closedBy = <<>> =>
                      \E t \in Threads : /\ procs[t].pc = "close"
                                         /\ procs[t].old = i
                                         /\ procs[t].call = swaps[i].by
    /\ StartSpanNeverWaits

\* Two calls have each swapped a shadow tracer out and neither has closed
\* its old one yet.
C14_Witness ==
    /\ \A t \in Threads : procs[t].pc = "close"
    /\ \E t, u \in Threads : t # u /\ procs[t].old # procs[u].old
    /\ \A t \in Threads : ~shadows[procs[t].old].closed

\* C17: Remove of a Tracer that is not in the registry panics and of one
\* that is in it does not; when the panic leaves Remove the registry holds
\* what it held when Remove took the lock, the lock is free and the Tracer's
\* shadow tracer is untouched; the call never goes on.
C17_RemoveUnknownPanics ==
    [][ \A t \in Threads :
          /\ (procs[t].pc = "remove" /\ procs'[t].pc # "remove") =>
                IF \E j \in 1..Len(tracers) : tracers[j] = procs[t].arg
                THEN procs'[t].pc = "removeUnlock"
                ELSE procs'[t].pc = "panic" /\ tracers' = tracers
          /\ (procs[t].pc # "panicked" /\ procs'[t].pc = "panicked") =>
                /\ tracers' = procs[t].seen
                /\ regLock' = Nil
                /\ shadowTracer' = shadowTracer
          /\ procs[t].pc = "panicked" => procs'[t] = procs[t]
      ]_vars

\* A second Close of the first Tracer has panicked.
C17_Witness ==
    \E t \in Threads :
        /\ procs[t].pc = "panicked"
        /\ procs[t].arg = Len(<<Nil>>)
        /\ procs[t].seen = tracers
        /\ regLock = Nil

\* A thread holds the registry lock in ForEach.
HeldInForEach == regLock # Nil /\ procs[regLock].op = "ForEach"

\* C18: the thread that holds the registry lock is in NewTracer, Close or
\* ForEach; and while a thread holds it in ForEach, every other thread can
\* take its step of StartSpan and its step of StartChildSpan that does not
\* wait for a span's lock, and the caller its Inject and its Extract.
C18_RegistryLockOnlySerializesRegistry ==
    /\ regLock # Nil => procs[regLock].op \in {"NewTracer", "Close", "ForEach"}
    /\ HeldInForEach =>
          /\ StartSpanNeverWaits
          /\ \A t \in Threads :
                /\ (procs[t].pc = "idle" /\ steps < MaxSteps)
                      => ENABLED CsBegin(t, 0, FALSE)
                /\ procs[t].pc = "copy" => ENABLED CsCopy(t)
                /\ procs[t].pc = "child" => ENABLED CsChildUnlock(t)
                /\ procs[t].pc = "unlock" => ENABLED CsUnlock(t)
          /\ ~injected.done => ENABLED Inject(RemoteCtx, "TextMap", "ok")
          /\ ENABLED Extract("TextMap")

\* A thread is in the loop of ForEach and holds the registry lock, and the
\* other thread entered StartSpan after that and has read the cell.
C18_Witness ==
    \E t, u \in Threads :
        /\ regLock = t
        /\ procs[t].op = "ForEach"
        /\ procs[u].op = "StartSpan"
        /\ procs[u].pc = "build"
        /\ procs[u].call > procs[t].call

-----------------------------------------------------------------------------
(* Claims about concurrent StartChildSpan calls, checked under SpecChild. *)

\* The spans whose lock a thread holds.
LocksOf(t) == {i \in DOMAIN mu : mu[i] = t}

\* From the read of the parent's baggage to the last read of its recording
\* the thread holds the parent's lock; besides it the thread holds only the
\* lock of the child it has just made, which no other thread can name; and
\* before and after the call it holds none.
LockDiscipline ==
    \A t \in Threads :
        /\ procs[t].pc \in {"idle", "build", "lock"} => LocksOf(t) = {}
        /\ procs[t].pc \in {"copy", "unlock"} => LocksOf(t) = {procs[t].arg}
        /\ procs[t].pc = "child" =>
              /\ LocksOf(t) = {procs[t].arg, procs[t].child}
              /\ procs[t].child # procs[t].arg
              /\ procs[t].child \notin Published
              /\ \A u \in Threads : procs[u].arg # procs[t].child

-----------------------------------------------------------------------------
(* Claims about the registry's contents, checked under SpecThreads. *)

\* The elements of a sequence.
Range(seq) == {seq[i] : i \in 1..Len(seq)}

\* The elements of a set of numbers in ascending order.
RECURSIVE Ascending(_)
Ascending(S) ==
    IF S = {} THEN <<>>
    ELSE LET x == CHOOSE y \in S : \A z \in S : y <= z
         IN <<x>> \o Ascending(S \ {x})

\* A sequence without the elements of a set, the order kept.
RECURSIVE Without(_, _)
Without(seq, S) ==
    IF seq = <<>> THEN <<>>
    ELSE (IF Head(seq) \in S THEN <<>> ELSE <<Head(seq)>>) \o Without(Tail(seq), S)

\* The Tracers made and not closed.  Tracers are numbered as line 107 made
\* them.
Live == (1..created) \ history.removed

\* No thread is inside NewTracer or inside Close's Remove.
RegistryQuiet ==
    \A t \in Threads :
        \/ procs[t].op \notin {"NewTracer", "Close"}
        \/ procs[t].pc \in {"closeSwap", "panicked"}

\* A ForEach that has finished its loop has visited the registry's Tracers.
ForEachVisitsRegistry ==
    \A t \in Threads :
        (procs[t].op = "ForEach" /\ Len(procs[t].seen) = Len(tracers))
            => procs[t].seen = tracers

\* C21 (as claimed): when no NewTracer and no Close is under way the
\* registry holds the Tracers made and not closed, each once, in the order
\* in which they were made, and ForEach visits them.
C21_RegistryInCreationOrder ==
    /\ RegistryQuiet => tracers = Ascending(Live)
    /\ ForEachVisitsRegistry

\* C21 (amended): the registry holds, in the order in which Add appended
\* them, the Tracers Add has appended and Remove has not taken out, each
\* once; when no NewTracer and no Close is under way these are the Tracers
\* made and not closed; and ForEach visits the registry's Tracers.
C21_RegistryInAddOrder ==
    /\ tracers = Without(history.added, history.removed)
    /\ Cardinality(Range(tracers)) = Len(tracers)
    /\ RegistryQuiet => Range(tracers) = Live
    /\ ForEachVisitsRegistry

\* Two NewTracer calls have overlapped and the first Tracer is closed: the
\* registry holds the two later Tracers, the later made first.
C21_Witness ==
    /\ RegistryQuiet
    /\ history.removed # {}
    /\ Len(tracers) > Len(<<Nil>>)
    /\ tracers[Len(<<Nil>>)] > tracers[Len(tracers)]

-----------------------------------------------------------------------------
(* Claims about Inject's errors, checked under SpecCodec. *)

\* C22: when Inject has returned an error the carrier is as it was before
\* the call.
C22_InjectErrorLeavesCarrier ==
    (injected.done /\ injected.err # ErrNil) => carrier = injected.before

=============================================================================
